---- MODULE Spec2Model ----
(***************************************************************************)
(* Multi-device synchronisation engine of App-timeline-tarefas:            *)
(*   services/syncUtils.ts   validateArrayField, hasValidId,               *)
(*                           isValidGoalCompletion, hashData, mergeLWW,    *)
(*                           mergeLWWGoalCompletions, getAdaptiveDebounce  *)
(*   services/syncService.ts sanitizeData, saveToFirebase (transaction),   *)
(*                           loadFromFirebase, syncWithFirebase (listener) *)
(*   App.tsx (lines 140-639) loadData, the snapshot listener, the save     *)
(*                           effect with its debounce timer, the handlers  *)
(*                                                                         *)
(* A JS array is a sequence; an item is a record whose fields are the      *)
(* item's properties (a property the object lacks is a field the record    *)
(* lacks).  _updatedAt is the field updatedAt.  Date.now() is the variable *)
(* now.  Domain fields other than the keys are folded into one field       *)
(* (val / status / completed).                                             *)
(***************************************************************************)
EXTENDS Integers, Sequences, FiniteSets, Bags, TLC

VARIABLES
  now,           \* Date.now(), in abstract milliseconds
  remote,        \* the Firestore document workspaces/casa_satos
  app,           \* per device: the App component's React state, refs and timers
  localStorage,  \* per device: the cached copies of the four collections
  saves,         \* per device: the saveToFirebase calls in flight
  inbox,         \* per device: snapshots the onSnapshot listener has yet to deliver
  nCommits,      \* history: number of committed transactions
  nOps,          \* history: number of local mutations made
  nCoalesced,    \* history: number of armed timers a later local change replaced
  deleted,       \* history: the <<device, id>> of the tasks deleted locally
  lastApplied,   \* history: per device, lastUpdated of the remote data applied last
  lastDelivery,  \* history: what the listener did with the snapshot delivered last
  captureMode,   \* which state updaters have run when the listener reads their results
  mExisting, mIncoming, mResult, mStage  \* the merge functions applied to drawn inputs

sysVars == <<now, remote, app, localStorage, saves, inbox, nCommits, nOps, nCoalesced,
            deleted, lastApplied, lastDelivery, captureMode>>
mergeVars == <<mExisting, mIncoming, mResult, mStage>>
vars == <<sysVars, mergeVars>>

----------------------------------------------------------------------------
(* Bounds *)
MaxTime == 2
MaxOps == 1
MaxLen == 2

----------------------------------------------------------------------------
(* services/syncUtils.ts *)

\* A value handed to validateArrayField: an array, or undefined/null/non-array.
Arr(s) == [isArray |-> TRUE, items |-> s]
Undefined == [isArray |-> FALSE, items |-> <<>>]
NullItem == [isNull |-> TRUE]

validateArrayField(field) ==
  IF ~field.isArray THEN <<>>
  ELSE SelectSeq(field.items, LAMBDA item : item # NullItem)

hasValidId(obj) ==
  /\ obj # NullItem
  /\ "id" \in DOMAIN obj
  /\ obj.id # ""

isValidGoalCompletion(obj) ==
  /\ obj # NullItem
  /\ "goalId" \in DOMAIN obj
  /\ "date" \in DOMAIN obj
  /\ "completed" \in DOMAIN obj

\* item._updatedAt || 0
UpdatedAtOr0(item) == IF "updatedAt" \in DOMAIN item THEN item.updatedAt ELSE 0

\* Map.has / Map.get / Map.set on the insertion-ordered Map<string, T> of mergeLWW,
\* held as the sequence of its values (Array.from(merged.values())).
IdMapHas(merged, id) == \E i \in 1..Len(merged) : merged[i].id = id
IdMapGet(merged, id) == merged[CHOOSE i \in 1..Len(merged) : merged[i].id = id]
IdMapSet_Append(merged, id, item) == Append(merged, item)
IdMapSet(merged, id, item) ==
  IF IdMapHas(merged, id)
  THEN [i \in 1..Len(merged) |-> IF merged[i].id = id THEN item ELSE merged[i]]
  ELSE Append(merged, item)

\* safeExisting.forEach(item => hasValidId(item) ? merged.set(item.id, item) : warn)
mergeLWW_Existing_Skipped(merged, items) == merged
RECURSIVE mergeLWW_Existing(_, _)
mergeLWW_Existing(merged, items) ==
  IF items = <<>> THEN merged
  ELSE LET item == Head(items)
       IN mergeLWW_Existing(IF hasValidId(item) THEN IdMapSet(merged, item.id, item)
                                                ELSE merged,
                            Tail(items))

\* if (newTimestamp >= existingTimestamp) merged.set(...)
NewItemWins_StrictlyNewer(newTimestamp, existingTimestamp) ==
  newTimestamp > existingTimestamp
NewItemWins_Always(newTimestamp, existingTimestamp) == TRUE
NewItemWins(newTimestamp, existingTimestamp) == newTimestamp >= existingTimestamp

\* safeNew.forEach(newItem => ...)
RECURSIVE mergeLWW_New(_, _)
mergeLWW_New(merged, items) ==
  IF items = <<>> THEN merged
  ELSE LET newItem == Head(items)
           next == IF ~hasValidId(newItem) THEN merged
                   ELSE IF ~IdMapHas(merged, newItem.id)
                        THEN IdMapSet(merged, newItem.id, newItem)
                   ELSE IF NewItemWins(UpdatedAtOr0(newItem),
                                       UpdatedAtOr0(IdMapGet(merged, newItem.id)))
                        THEN IdMapSet(merged, newItem.id, newItem)
                   ELSE merged
       IN mergeLWW_New(next, Tail(items))

mergeLWW(existingArray, newArray) ==
  mergeLWW_New(mergeLWW_Existing(<<>>, validateArrayField(existingArray)),
               validateArrayField(newArray))

\* The Map of mergeLWWGoalCompletions, keyed by `${goalId}::${date}`.
CompletionKey(item) == <<item.goalId, item.date>>
KeyMapHas(merged, key) == \E i \in 1..Len(merged) : CompletionKey(merged[i]) = key
KeyMapGet(merged, key) ==
  merged[CHOOSE i \in 1..Len(merged) : CompletionKey(merged[i]) = key]
KeyMapSet(merged, key, item) ==
  IF KeyMapHas(merged, key)
  THEN [i \in 1..Len(merged) |->
          IF CompletionKey(merged[i]) = key THEN item ELSE merged[i]]
  ELSE Append(merged, item)

RECURSIVE mergeLWWGoalCompletions_Existing(_, _)
mergeLWWGoalCompletions_Existing(merged, items) ==
  IF items = <<>> THEN merged
  ELSE LET item == Head(items)
       IN mergeLWWGoalCompletions_Existing(
            IF isValidGoalCompletion(item)
            THEN KeyMapSet(merged, CompletionKey(item), item) ELSE merged,
            Tail(items))

\* if (newTimestamp >= existingTimestamp) merged.set(key, newItem)
NewCompletionWins(newTimestamp, existingTimestamp) == newTimestamp >= existingTimestamp

RECURSIVE mergeLWWGoalCompletions_New(_, _)
mergeLWWGoalCompletions_New(merged, items) ==
  IF items = <<>> THEN merged
  ELSE LET newItem == Head(items)
           next == IF ~isValidGoalCompletion(newItem) THEN merged
                   ELSE IF ~KeyMapHas(merged, CompletionKey(newItem))
                        THEN KeyMapSet(merged, CompletionKey(newItem), newItem)
                   ELSE IF NewCompletionWins(
                             UpdatedAtOr0(newItem),
                             UpdatedAtOr0(KeyMapGet(merged, CompletionKey(newItem))))
                        THEN KeyMapSet(merged, CompletionKey(newItem), newItem)
                   ELSE merged
       IN mergeLWWGoalCompletions_New(next, Tail(items))

mergeLWWGoalCompletions(existingArray, newArray) ==
  mergeLWWGoalCompletions_New(
    mergeLWWGoalCompletions_Existing(<<>>, validateArrayField(existingArray)),
    validateArrayField(newArray))

\* The canonical string of hashData: the four lengths, then per collection the
\* sorted, joined JSON of the items without _updatedAt.  Sorting makes the joined
\* string a function of the multiset of item strings, which is what is kept here;
\* the FNV-1a fold over the string is taken to be injective on these strings.
normalize(obj) == [f \in DOMAIN obj \ {"updatedAt"} |-> obj[f]]

SortedJoin(strs) ==
  LET values == {strs[i] : i \in 1..Len(strs)}
  IN [v \in values |-> Cardinality({i \in 1..Len(strs) : strs[i] = v})]

NormalizeAll(items) == [i \in 1..Len(items) |-> normalize(items[i])]

hashData(data) ==
  LET safeTasks == validateArrayField(data.tasks)
      safeReminders == validateArrayField(data.reminders)
      safeGoals == validateArrayField(data.goals)
      safeGoalCompletions == validateArrayField(data.goalCompletions)
  IN [lengthStr |-> <<Len(safeTasks), Len(safeReminders), Len(safeGoals),
                      Len(safeGoalCompletions)>>,
      tasksStr |-> SortedJoin(NormalizeAll(safeTasks)),
      remindersStr |-> SortedJoin(NormalizeAll(safeReminders)),
      goalsStr |-> SortedJoin(NormalizeAll(safeGoals)),
      completionsStr |-> SortedJoin(NormalizeAll(safeGoalCompletions))]

\* useRef<string>(''): the empty string, which no hashData result equals.
EmptyHash == [lengthStr |-> <<>>]

DEBOUNCE_SHORT == 300
DEBOUNCE_MEDIUM == 600
DEBOUNCE_LONG == 1000

getAdaptiveDebounce(changeCount) ==
  IF changeCount <= 1 THEN DEBOUNCE_SHORT
  ELSE IF changeCount <= 3 THEN DEBOUNCE_MEDIUM
  ELSE DEBOUNCE_LONG

----------------------------------------------------------------------------
(* services/syncService.ts *)

Devices == {"devA", "devB"}

Collections(x) ==
  [tasks |-> x.tasks, reminders |-> x.reminders, goals |-> x.goals,
   goalCompletions |-> x.goalCompletions]

WithUpdatedAt(item, ts) ==
  [f \in DOMAIN item \cup {"updatedAt"} |-> IF f = "updatedAt" THEN ts ELSE item[f]]

\* items.map(item => ({...item, _updatedAt: item._updatedAt || timestamp}))
StampAll(items, timestamp) ==
  [i \in 1..Len(items) |->
     WithUpdatedAt(items[i], IF UpdatedAtOr0(items[i]) # 0 THEN items[i].updatedAt
                                                            ELSE timestamp)]

sanitizeData(data, timestamp) ==
  [tasks |-> StampAll(validateArrayField(Arr(data.tasks)), timestamp),
   reminders |-> StampAll(validateArrayField(Arr(data.reminders)), timestamp),
   goals |-> StampAll(validateArrayField(Arr(data.goals)), timestamp),
   goalCompletions |-> StampAll(validateArrayField(Arr(data.goalCompletions)), timestamp)]

mergeArraysById(existingArray, newArray) == mergeLWW(existingArray, newArray)

AbsentDoc ==
  [exists |-> FALSE, tasks |-> <<>>, reminders |-> <<>>, goals |-> <<>>,
   goalCompletions |-> <<>>, lastUpdated |-> 0, lastDeviceId |-> "", version |-> 0]

FirstVersion == 1
NextVersion_Same(currentVersion) == currentVersion
NextVersion(currentVersion) == currentVersion + 1

\* The update function of runTransaction: what transaction.set writes, given what
\* transaction.get read.
TransactionWrite(doc, sanitizedData, deviceId, t) ==
  IF ~doc.exists
  THEN [exists |-> TRUE,
        tasks |-> sanitizedData.tasks, reminders |-> sanitizedData.reminders,
        goals |-> sanitizedData.goals,
        goalCompletions |-> sanitizedData.goalCompletions,
        lastUpdated |-> t, lastDeviceId |-> deviceId, version |-> FirstVersion]
  ELSE [exists |-> TRUE,
        tasks |-> mergeArraysById(Arr(validateArrayField(Arr(doc.tasks))),
                                  Arr(sanitizedData.tasks)),
        reminders |-> mergeArraysById(Arr(validateArrayField(Arr(doc.reminders))),
                                      Arr(sanitizedData.reminders)),
        goals |-> mergeArraysById(Arr(validateArrayField(Arr(doc.goals))),
                                  Arr(sanitizedData.goals)),
        goalCompletions |->
          mergeArraysById(Arr(validateArrayField(Arr(doc.goalCompletions))),
                          Arr(sanitizedData.goalCompletions)),
        lastUpdated |-> t, lastDeviceId |-> deviceId,
        version |-> NextVersion(doc.version)]

\* items.map(item => ({...item, _updatedAt: item._updatedAt || 0}))
FromFirestore(items) ==
  [i \in 1..Len(items) |-> WithUpdatedAt(items[i], UpdatedAtOr0(items[i]))]

\* convertedData of the onSnapshot callback, and the result of loadFromFirebase
ConvertedData(doc) ==
  [tasks |-> FromFirestore(validateArrayField(Arr(doc.tasks))),
   reminders |-> FromFirestore(validateArrayField(Arr(doc.reminders))),
   goals |-> FromFirestore(validateArrayField(Arr(doc.goals))),
   goalCompletions |-> FromFirestore(validateArrayField(Arr(doc.goalCompletions))),
   lastUpdated |-> doc.lastUpdated, lastDeviceId |-> doc.lastDeviceId]

----------------------------------------------------------------------------
(* App.tsx, the component App of lines 179-637 *)

Today == "2024-01-01"

\* localStorage is empty on a first start: the default data (one item per default
\* collection is kept), none of which carries _updatedAt.
DefaultData ==
  [tasks |-> << [id |-> "t1", val |-> "default"] >>,
   reminders |-> << [id |-> "r1", status |-> "pending"] >>,
   goals |-> << [id |-> "g1", val |-> "default"] >>,
   goalCompletions |-> << [goalId |-> "g1", date |-> Today, completed |-> TRUE] >>]

InitApp ==
  [tasks |-> DefaultData.tasks, reminders |-> DefaultData.reminders,
   goals |-> DefaultData.goals, goalCompletions |-> DefaultData.goalCompletions,
   isLoaded |-> FALSE,
   syncTimeout |-> {},            \* the armed debounce timers
   isSyncingFromFirebase |-> FALSE,
   flagResets |-> 0,              \* outstanding setTimeout(..., 3000) of the flag
   lastLocalChangeTimestamp |-> 0,
   pendingSaveTimestamp |-> 0,
   dataHashRef |-> EmptyHash]

\* saveToLocalStorage of the four keys; before the first write the keys are absent
Stored(cols) ==
  [present |-> TRUE, tasks |-> cols.tasks, reminders |-> cols.reminders,
   goals |-> cols.goals, goalCompletions |-> cols.goalCompletions]
EmptyStorage ==
  [present |-> FALSE, tasks |-> <<>>, reminders |-> <<>>, goals |-> <<>>,
   goalCompletions |-> <<>>]

AsFields(cols) ==
  [tasks |-> Arr(cols.tasks), reminders |-> Arr(cols.reminders),
   goals |-> Arr(cols.goals), goalCompletions |-> Arr(cols.goalCompletions)]

\* clearTimeout(syncTimeoutRef.current): the ref names the one armed timer
clearTimeout_Forgotten(timers) == timers
clearTimeout(timers) == {}

\* The cleanup the previous run of the save effect returned.  A run that returned
\* early returned none, and then no timer is armed: every run that arms a timer
\* returns the cleanup, and the next run starts by running it.
EffectCleanup(a) == [a EXCEPT !.syncTimeout = clearTimeout(@)]

\* if (currentHash === dataHashRef.current) return
HashUnchanged_Never(currentHash, dataHashRef) == FALSE
HashUnchanged(currentHash, dataHashRef) == currentHash = dataHashRef

\* The body of the save effect, run at time t on the state a now holds.
\* Gives the component and the localStorage it leaves.
SaveEffectBody(a, ls, t) ==
  IF ~a.isLoaded THEN [app |-> a, ls |-> ls]
  ELSE IF a.isSyncingFromFirebase THEN [app |-> a, ls |-> ls]
  ELSE LET currentHash == hashData(AsFields(a))
       IN IF HashUnchanged(currentHash, a.dataHashRef) THEN [app |-> a, ls |-> ls]
          ELSE [app |-> [a EXCEPT
                          !.dataHashRef = currentHash,
                          !.lastLocalChangeTimestamp = t,
                          !.pendingSaveTimestamp = t,
                          !.syncTimeout = clearTimeout(@) \cup {[data |-> Collections(a)]}],
                ls |-> Stored(Collections(a))]

\* A re-render after tasks, reminders, goals, goalCompletions or isLoaded changed.
Render(a, ls, t) == SaveEffectBody(EffectCleanup(a), ls, t)

\* Date.now() at a step: the clock as it stands, or one millisecond on
Clock == {t \in {now, now + 1} : t <= MaxTime}

\* A local mutation: the handler's setState calls, then the re-render.
LocalMutation(d, newState) ==
  /\ nOps < MaxOps
  /\ LET r == Render(newState, localStorage[d], now')
     IN /\ app' = [app EXCEPT ![d] = r.app]
        /\ localStorage' = [localStorage EXCEPT ![d] = r.ls]
  /\ nOps' = nOps + 1
  /\ nCoalesced' = IF app[d].syncTimeout # {} /\ app'[d].syncTimeout # {}
                   THEN nCoalesced + 1 ELSE nCoalesced
  /\ UNCHANGED <<remote, saves, inbox, nCommits, lastApplied, lastDelivery, captureMode,
                 mergeVars>>

Ids(items) == {items[i].id : i \in 1..Len(items)}

handleAddTask(d) ==
  \E t \in Clock :
    LET newTask == [id |-> "t" \o ToString(t), val |-> d, updatedAt |-> t]
    IN /\ now' = t
       /\ newTask.id \notin Ids(app[d].tasks)
       /\ LocalMutation(d, [app[d] EXCEPT !.tasks = Append(@, newTask)])
       /\ UNCHANGED deleted

handleDeleteTask(d) ==
  \E taskId \in Ids(app[d].tasks), t \in Clock :
    /\ now' = t
    /\ LocalMutation(d, [app[d] EXCEPT
                           !.tasks = SelectSeq(@, LAMBDA task : task.id # taskId)])
    /\ deleted' = deleted \cup {<<d, taskId>>}

Toggled(status) == IF status = "pending" THEN "done" ELSE "pending"

handleToggleReminderStatus(d) ==
  \E reminderId \in Ids(app[d].reminders), t \in Clock :
    /\ now' = t
    /\ LocalMutation(d,
         [app[d] EXCEPT !.reminders =
            [i \in 1..Len(@) |->
               IF @[i].id = reminderId
               THEN WithUpdatedAt([@[i] EXCEPT !.status = Toggled(@)], t)
               ELSE @[i]]])
    /\ UNCHANGED deleted

handleDeleteGoal(d) ==
  \E goalId \in Ids(app[d].goals), t \in Clock :
    /\ now' = t
    /\ LocalMutation(d,
         [app[d] EXCEPT !.goals = SelectSeq(@, LAMBDA g : g.id # goalId),
                        !.goalCompletions = SelectSeq(@, LAMBDA gc : gc.goalId # goalId)])
    /\ UNCHANGED deleted

handleToggleGoalCompletion(d) ==
  \E goalId \in Ids(app[d].goals), t \in Clock :
    LET gcs == app[d].goalCompletions
        found == {i \in 1..Len(gcs) : gcs[i].goalId = goalId /\ gcs[i].date = Today}
    IN /\ now' = t
       /\ LocalMutation(d,
            [app[d] EXCEPT !.goalCompletions =
               IF found # {}
               THEN LET completionIndex == CHOOSE i \in found : \A j \in found : i <= j
                    IN [i \in 1..Len(gcs) |->
                          IF i = completionIndex
                          THEN WithUpdatedAt([gcs[i] EXCEPT !.completed = ~@], t)
                          ELSE gcs[i]]
               ELSE Append(gcs, [goalId |-> goalId, date |-> Today, completed |-> TRUE,
                                 updatedAt |-> t])])
       /\ UNCHANGED deleted

\* loadData: loadFromFirebase gave the document (got) or null; then
\* setIsLoaded(true) subscribes the listener and runs the save effect.
loadData(d) ==
  /\ ~app[d].isLoaded
  /\ \E got \in (IF remote.exists THEN {TRUE, FALSE} ELSE {FALSE}), t \in Clock :
       LET a == app[d]
           firebaseData == ConvertedData(remote)
           a1 == IF got
                 THEN [a EXCEPT
                         !.isSyncingFromFirebase = TRUE,
                         !.tasks = mergeLWW(Arr(@), Arr(firebaseData.tasks)),
                         !.reminders = mergeLWW(Arr(@), Arr(firebaseData.reminders)),
                         !.goals = mergeLWW(Arr(@), Arr(firebaseData.goals)),
                         !.goalCompletions =
                            mergeLWWGoalCompletions(Arr(@),
                                                    Arr(firebaseData.goalCompletions)),
                         !.lastLocalChangeTimestamp = firebaseData.lastUpdated,
                         !.flagResets = @ + 1,
                         !.isLoaded = TRUE]
                 ELSE [a EXCEPT !.isLoaded = TRUE]
           r == Render(a1, localStorage[d], t)
       IN /\ now' = t
          /\ app' = [app EXCEPT ![d] = r.app]
          /\ localStorage' = [localStorage EXCEPT ![d] = r.ls]
          /\ inbox' = [inbox EXCEPT ![d] =
                         IF remote.exists THEN @ \cup {ConvertedData(remote)} ELSE @]
          /\ lastApplied' = IF got THEN [lastApplied EXCEPT ![d] = firebaseData.lastUpdated]
                            ELSE lastApplied
  /\ UNCHANGED <<remote, saves, nCommits, nOps, nCoalesced, deleted, lastDelivery,
                 captureMode, mergeVars>>

\* The inbound gate of the listener
isOwnUpdate(data, currentDeviceId) ==
  data.lastDeviceId # "" /\ data.lastDeviceId = currentDeviceId

hasLocalChanges_Never(a, firebaseTimestamp) == FALSE
hasLocalChanges(a, firebaseTimestamp) ==
  a.pendingSaveTimestamp > 0 /\ a.pendingSaveTimestamp > firebaseTimestamp

isOlderThanLocal_OrEqual(a, firebaseTimestamp) ==
  firebaseTimestamp <= a.lastLocalChangeTimestamp
isOlderThanLocal(a, firebaseTimestamp) == firebaseTimestamp < a.lastLocalChangeTimestamp

\* let mergedTasks ...; setTasks(prev => { mergedTasks = ...; return mergedTasks }); ...
\* hashData({tasks: mergedTasks!, ...}): the four variables are assigned inside the
\* state updaters and read right after the setState calls.  Which updaters have
\* run by then is the renderer's choice: all of them, or only the one queued first
\* (and then of the other three only setTasks's); a variable whose updater has
\* not run is still undefined.  The renderer in use is fixed for a run.
CaptureModes == {"all", "first"}

Captured(merged, mode) ==
  [tasks |-> IF mode \in {"all", "first"} THEN Arr(merged.tasks) ELSE Undefined,
   reminders |-> IF mode = "all" THEN Arr(merged.reminders) ELSE Undefined,
   goals |-> IF mode = "all" THEN Arr(merged.goals) ELSE Undefined,
   goalCompletions |-> IF mode = "all" THEN Arr(merged.goalCompletions) ELSE Undefined]

\* isSyncingFromFirebase.current = true
FlagOnApply_Unset(a) == a.isSyncingFromFirebase
FlagOnApply(a) == TRUE

\* if (isOwnUpdate) pendingSaveTimestamp.current = 0
PendingAfterApply_Kept(a, own) == a.pendingSaveTimestamp
PendingAfterApply(a, own) == IF own THEN 0 ELSE a.pendingSaveTimestamp

\* The accepted path of the listener, lines 300-356
ApplySnapshot(a, data, own, mode) ==
  LET merged ==
        [tasks |-> mergeLWW(Arr(a.tasks), Arr(data.tasks)),
         reminders |-> mergeLWW(Arr(a.reminders), Arr(data.reminders)),
         goals |-> mergeLWW(Arr(a.goals), Arr(data.goals)),
         goalCompletions |->
           mergeLWWGoalCompletions(Arr(a.goalCompletions), Arr(data.goalCompletions))]
  IN [a EXCEPT
        !.isSyncingFromFirebase = FlagOnApply(a),
        !.tasks = merged.tasks,
        !.reminders = merged.reminders,
        !.goals = merged.goals,
        !.goalCompletions = merged.goalCompletions,
        !.lastLocalChangeTimestamp = data.lastUpdated,
        !.dataHashRef = hashData(Captured(merged, mode)),
        !.pendingSaveTimestamp = PendingAfterApply(a, own),
        !.flagResets = @ + 1]

\* data.goals.map(g => ({id: g.id, desc: g.description.substring(0, 30)})) throws a
\* TypeError for a goal without description (description is folded into val)
LogThrows(data) == \E i \in 1..Len(data.goals) : "val" \notin DOMAIN data.goals[i]

\* The catch block of the listener
ListenerCatch_Nothing(a) == a
ListenerCatch(a) == [a EXCEPT !.isSyncingFromFirebase = FALSE, !.pendingSaveTimestamp = 0]

Delivery(d, data, outcome) ==
  [dev |-> d, writer |-> data.lastDeviceId, lastUpdated |-> data.lastUpdated,
   outcome |-> outcome]
NoDelivery == [dev |-> "", writer |-> "", lastUpdated |-> 0, outcome |-> "none"]

\* One snapshot through syncWithFirebase's onSnapshot callback: the listener of
\* App (onDataChange), the four saveToLocalStorage calls, then the re-render.
Deliver(d) ==
  \E data \in inbox[d] :
    LET a == app[d]
        own == isOwnUpdate(data, d)
        firebaseTimestamp == data.lastUpdated
        cached == Stored(Collections(data))
    IN /\ inbox' = [inbox EXCEPT ![d] = @ \ {data}]
       /\ IF hasLocalChanges(a, firebaseTimestamp)
          THEN /\ app' = app
               /\ localStorage' = [localStorage EXCEPT ![d] = cached]
               /\ lastApplied' = lastApplied
               /\ lastDelivery' = Delivery(d, data, "rejectedPending")
          ELSE IF isOlderThanLocal(a, firebaseTimestamp) /\ ~own
          THEN /\ app' = app
               /\ localStorage' = [localStorage EXCEPT ![d] = cached]
               /\ lastApplied' = lastApplied
               /\ lastDelivery' = Delivery(d, data, "rejectedStale")
          ELSE IF LogThrows(data)
          THEN /\ app' = [app EXCEPT ![d] = ListenerCatch(a)]
               /\ localStorage' = [localStorage EXCEPT ![d] = cached]
               /\ lastApplied' = lastApplied
               /\ lastDelivery' = Delivery(d, data, "threw")
          ELSE LET r == Render(ApplySnapshot(a, data, own, captureMode), cached, now)
               IN /\ app' = [app EXCEPT ![d] = r.app]
                  /\ localStorage' = [localStorage EXCEPT ![d] = r.ls]
                  /\ lastApplied' = [lastApplied EXCEPT ![d] = data.lastUpdated]
                  /\ lastDelivery' = Delivery(d, data, "applied")
       /\ UNCHANGED <<now, remote, saves, nCommits, nOps, nCoalesced, deleted, captureMode,
                      mergeVars>>

\* setTimeout(() => { isSyncingFromFirebase.current = false }, 3000) expires
ResetFlag(d) ==
  /\ app[d].flagResets > 0
  /\ app' = [app EXCEPT ![d].isSyncingFromFirebase = FALSE, ![d].flagResets = @ - 1]
  /\ UNCHANGED <<now, remote, localStorage, saves, inbox, nCommits, nOps, nCoalesced,
                 deleted, lastApplied, lastDelivery, captureMode, mergeVars>>

\* saveToFirebase(userData) up to its await: the argument, and sanitizedData
SaveCall(userData, t) == [userData |-> userData, data |-> sanitizeData(userData, t)]

\* The debounce timer expires: saveToFirebase(userData) is called and runs up to
\* its await (sanitizeData with Date.now()).
TimerFire(d) ==
  \E timer \in app[d].syncTimeout, t \in Clock :
    /\ now' = t
    /\ app' = [app EXCEPT ![d].syncTimeout = @ \ {timer}]
    /\ saves' = [saves EXCEPT ![d] = @ \cup {SaveCall(timer.data, t)}]
    /\ UNCHANGED <<remote, localStorage, inbox, nCommits, nOps, nCoalesced, deleted,
                   lastApplied, lastDelivery, captureMode, mergeVars>>

\* runTransaction commits: the store applies the read-merge-write atomically and
\* notifies every subscribed listener with the new document.
TxnCommit(d) ==
  \E s \in saves[d], t \in Clock :
    /\ now' = t
    /\ remote' = TransactionWrite(remote, s.data, d, t)
    /\ inbox' = [e \in Devices |->
                   IF app[e].isLoaded THEN inbox[e] \cup {ConvertedData(remote')}
                   ELSE inbox[e]]
    /\ saves' = [saves EXCEPT ![d] = @ \ {s}]
    /\ nCommits' = nCommits + 1
    /\ UNCHANGED <<app, localStorage, nOps, nCoalesced, deleted, lastApplied, lastDelivery,
                   captureMode, mergeVars>>

\* What can stop saveToFirebase: db is null, or something thrown inside its try
\* (by sanitizeData, by the logging of the goals, or by runTransaction)
NoDb == [thrown |-> FALSE]
Thrown ==
  {[thrown |-> TRUE, name |-> "RangeError", message |-> "Invalid time value", code |-> ""],
   [thrown |-> TRUE, name |-> "TypeError", message |-> "substring of undefined", code |-> ""],
   [thrown |-> TRUE, name |-> "FirebaseError", message |-> "m", code |-> "permission-denied"],
   [thrown |-> TRUE, name |-> "FirebaseError", message |-> "m", code |-> "unavailable"],
   [thrown |-> TRUE, name |-> "FirebaseError", message |-> "m", code |-> "unauthenticated"],
   [thrown |-> TRUE, name |-> "FirebaseError", message |-> "m", code |-> "aborted"]}
Failures == {NoDb} \cup Thrown

\* The return value of a call, or the exception that leaves it
Returned(value) == [threw |-> FALSE, value |-> value]
Threw(error) == [threw |-> TRUE, value |-> error]

\* The else branch of the catch block: `Erro: ${error.code || error.message}`
Unclassified_Rethrown(error) == Threw(error)
Unclassified(error) ==
  Returned([success |-> FALSE,
            error |-> <<"Erro", IF error.code # "" THEN error.code ELSE error.message>>])

\* if (!db) return {...}, and the catch block of saveToFirebase
saveToFirebase_Failed(failure) ==
  IF ~failure.thrown THEN Returned([success |-> FALSE, error |-> <<"Firebase nao inicializado">>])
  ELSE IF failure.name = "RangeError" /\ failure.message = "Invalid time value"
       THEN Returned([success |-> FALSE, error |-> <<"Datas invalidas">>])
  ELSE IF failure.code = "permission-denied"
       THEN Returned([success |-> FALSE, error |-> <<"Permissao negada">>])
  ELSE IF failure.code = "unavailable"
       THEN Returned([success |-> FALSE, error |-> <<"Firebase indisponivel">>])
  ELSE IF failure.code = "unauthenticated"
       THEN Returned([success |-> FALSE, error |-> <<"Autenticacao necessaria">>])
  ELSE Unclassified(failure)

\* The continuation of the timer callback after await saveToFirebase(...) when
\* result.success is false; result.error goes to the banner only
PendingAfterFailure(pendingSaveTimestamp) == 0

SaveFailure(d, s) ==
  /\ saves' = [saves EXCEPT ![d] = @ \ {s}]
  /\ app' = [app EXCEPT ![d].pendingSaveTimestamp =
                          PendingAfterFailure(app[d].pendingSaveTimestamp)]
  /\ UNCHANGED <<now, remote, localStorage, inbox, nCommits, nOps, nCoalesced, deleted,
                 lastApplied, lastDelivery, captureMode>>

\* await saveToFirebase(...) resumes with {success: false, error}: db is not
\* initialised, or something was thrown inside the try
SaveFailed(d) ==
  \E s \in saves[d] :
    /\ \E failure \in Failures : ~saveToFirebase_Failed(failure).threw
    /\ SaveFailure(d, s)
    /\ UNCHANGED mergeVars

----------------------------------------------------------------------------
(* The specifications *)

MergeIdle == mExisting = <<>> /\ mIncoming = <<>> /\ mResult = <<>> /\ mStage = "idle"

\* The state after construction: no document, every device not yet mounted
Init ==
  /\ now = 1
  /\ remote = AbsentDoc
  /\ app = [d \in Devices |-> InitApp]
  /\ localStorage = [d \in Devices |-> EmptyStorage]
  /\ saves = [d \in Devices |-> {}]
  /\ inbox = [d \in Devices |-> {}]
  /\ nCommits = 0
  /\ nOps = 0
  /\ nCoalesced = 0
  /\ deleted = {}
  /\ lastApplied = [d \in Devices |-> 0]
  /\ lastDelivery = NoDelivery
  /\ captureMode \in CaptureModes
  /\ MergeIdle

\* One device in use, with every operation of the user and of the engine
InUse == {"devA"}

Next ==
  \E d \in InUse :
       \/ loadData(d)
       \/ handleAddTask(d)
       \/ handleDeleteTask(d)
       \/ handleToggleReminderStatus(d)
       \/ handleDeleteGoal(d)
       \/ handleToggleGoalCompletion(d)
       \/ Deliver(d)
       \/ ResetFlag(d)
       \/ TimerFire(d)
       \/ TxnCommit(d)
       \/ SaveFailed(d)

Spec == Init /\ [][Next]_vars

\* Every device starting and synchronising, the user touching nothing
SyncNext ==
  \E d \in Devices :
       \/ loadData(d)
       \/ Deliver(d)
       \/ ResetFlag(d)
       \/ TimerFire(d)
       \/ TxnCommit(d)
       \/ SaveFailed(d)

SyncSpec == Init /\ [][SyncNext]_vars

----------------------------------------------------------------------------
(* The merge functions on drawn inputs.  A collection holds at most one item  *)
(* per key (ids are Date.now() strings, completions are looked up by goalId   *)
(* and date before one is added); items that fail the type guard may repeat.  *)
(* Existing and incoming items differ in val / completed, so the result shows *)
(* which side an item came from.  Two revisions give every order of two       *)
(* timestamps; an item may also lack _updatedAt.                              *)

Revisions == {1, 2}
Tomorrow == "2024-01-02"

WithOrWithoutUpdatedAt(item) == {item} \cup {WithUpdatedAt(item, r) : r \in Revisions}

IdItems(val) ==
  UNION {WithOrWithoutUpdatedAt([id |-> id, val |-> val]) : id \in {"a", "b"}}
    \cup {[val |-> val]}

CompletionItems(completed) ==
  UNION {WithOrWithoutUpdatedAt([goalId |-> k[1], date |-> k[2], completed |-> completed]) :
           k \in {<<"g1", Today>>, <<"g1", Tomorrow>>, <<"g2", Today>>}}
    \cup {[goalId |-> "g1", date |-> Today]}

SeqsUpTo(items) == UNION {[1..n -> items] : n \in 0..MaxLen}

OneItemPerId(items) ==
  \A i, j \in 1..Len(items) :
    (i # j /\ hasValidId(items[i]) /\ hasValidId(items[j])) => items[i].id # items[j].id

OneItemPerKey(items) ==
  \A i, j \in 1..Len(items) :
    (i # j /\ isValidGoalCompletion(items[i]) /\ isValidGoalCompletion(items[j]))
      => CompletionKey(items[i]) # CompletionKey(items[j])

IdCollections(val) == {items \in SeqsUpTo(IdItems(val)) : OneItemPerId(items)}
CompletionCollections(completed) ==
  {items \in SeqsUpTo(CompletionItems(completed)) : OneItemPerKey(items)}

MergeInit ==
  /\ now = 1
  /\ remote = AbsentDoc
  /\ app = [d \in Devices |-> InitApp]
  /\ localStorage = [d \in Devices |-> EmptyStorage]
  /\ saves = [d \in Devices |-> {}]
  /\ inbox = [d \in Devices |-> {}]
  /\ nCommits = 0
  /\ nOps = 0
  /\ nCoalesced = 0
  /\ deleted = {}
  /\ lastApplied = [d \in Devices |-> 0]
  /\ lastDelivery = NoDelivery
  /\ captureMode = "all"
  /\ \/ mExisting \in IdCollections("existing") /\ mIncoming \in IdCollections("incoming")
     \/ /\ mExisting \in CompletionCollections(FALSE)
        /\ mIncoming \in CompletionCollections(TRUE)
  /\ mResult = <<>>
  /\ mStage = "drawn"

ApplyMergeLWW ==
  /\ mStage = "drawn"
  /\ mResult' = mergeLWW(Arr(mExisting), Arr(mIncoming))
  /\ mStage' = "mergeLWW"
  /\ UNCHANGED <<mExisting, mIncoming, sysVars>>

ApplyMergeLWWGoalCompletions ==
  /\ mStage = "drawn"
  /\ mResult' = mergeLWWGoalCompletions(Arr(mExisting), Arr(mIncoming))
  /\ mStage' = "mergeLWWGoalCompletions"
  /\ UNCHANGED <<mExisting, mIncoming, sysVars>>

\* merge(A, merge(A, B)): the result merged into the same existing side again
MergeAgain ==
  /\ \/ /\ mStage = "mergeLWW"
        /\ mResult' = mergeLWW(Arr(mExisting), Arr(mResult))
     \/ /\ mStage = "mergeLWWGoalCompletions"
        /\ mResult' = mergeLWWGoalCompletions(Arr(mExisting), Arr(mResult))
  /\ mStage' = "again"
  /\ UNCHANGED <<mExisting, mIncoming, sysVars>>

MergeNext == ApplyMergeLWW \/ ApplyMergeLWWGoalCompletions \/ MergeAgain

MergeSpec == MergeInit /\ [][MergeNext]_vars

----------------------------------------------------------------------------
(* hashData on drawn inputs, computed on strings as the code computes it.  An  *)
(* object is the sequence of its properties in insertion order, which is the   *)
(* order JSON.stringify writes them in; a string is the sequence of its char   *)
(* codes.  timestamp / createdAt / description are folded into val.            *)

Obj(properties) == [properties |-> properties]

\* The char codes of the strings that occur
CharCodes(str) ==
  CASE str = "id" -> <<105, 100>>
    [] str = "val" -> <<118, 97, 108>>
    [] str = "a" -> <<97>>
    [] str = "b" -> <<98>>
    [] str = "x" -> <<120>>
    [] str = "{" -> <<123>>
    [] str = "}" -> <<125>>
    [] str = "\"" -> <<34>>
    [] str = ":" -> <<58>>
    [] str = "," -> <<44>>
    [] str = "|" -> <<124>>
    [] str = "::" -> <<58, 58>>
    [] str = "[" -> <<91>>
    [] str = "]" -> <<93>>

Quoted(str) == CharCodes("\"") \o CharCodes(str) \o CharCodes("\"")

\* const { _updatedAt, ...rest } = obj
Rest(obj) == SelectSeq(obj.properties, LAMBDA property : property[1] # "_updatedAt")

\* JSON.stringify of an object whose values are strings
RECURSIVE JSONProperties(_)
JSONProperties(properties) ==
  IF properties = <<>> THEN <<>>
  ELSE Quoted(Head(properties)[1]) \o CharCodes(":") \o Quoted(Head(properties)[2])
         \o (IF Len(properties) > 1 THEN CharCodes(",") ELSE <<>>)
         \o JSONProperties(Tail(properties))

JSONstringify(properties) == CharCodes("{") \o JSONProperties(properties) \o CharCodes("}")

normalizeToString(obj) == JSONstringify(Rest(obj))

\* a < b as Array.prototype.sort() orders strings: by code units, a prefix first
RECURSIVE StringLess(_, _)
StringLess(a, b) ==
  IF b = <<>> THEN FALSE
  ELSE IF a = <<>> THEN TRUE
  ELSE IF Head(a) # Head(b) THEN Head(a) < Head(b)
  ELSE StringLess(Tail(a), Tail(b))

RECURSIVE InsertSorted(_, _)
InsertSorted(str, sorted) ==
  IF sorted = <<>> THEN <<str>>
  ELSE IF StringLess(str, Head(sorted)) THEN <<str>> \o sorted
  ELSE <<Head(sorted)>> \o InsertSorted(str, Tail(sorted))

sort_Unsorted(strs) == strs

RECURSIVE sort(_)
sort(strs) == IF strs = <<>> THEN <<>> ELSE InsertSorted(Head(strs), sort(Tail(strs)))

RECURSIVE join(_, _)
join(strs, separator) ==
  IF strs = <<>> THEN <<>>
  ELSE IF Len(strs) = 1 THEN Head(strs)
  ELSE Head(strs) \o separator \o join(Tail(strs), separator)

MapNormalize(items) == [i \in 1..Len(items) |-> normalizeToString(items[i])]

\* `[${a},${b},${c},${d}]` for lengths below 10
Digit(n) == <<48 + n>>
LengthStr(a, b, c, d) ==
  CharCodes("[") \o Digit(a) \o CharCodes(",") \o Digit(b) \o CharCodes(",") \o Digit(c)
    \o CharCodes(",") \o Digit(d) \o CharCodes("]")

\* A 32-bit hash is kept as its two 16-bit halves, [hi, lo]
Word == 65536
\* 2166136261 = 0x811C9DC5
FNV_OFFSET == [hi |-> 33052, lo |-> 40389]

\* hash ^= code, for a code below 256
XorByte(hash, code) ==
  LET low == hash.lo % 256
      x(p) == (((low \div p) + (code \div p)) % 2) * p
  IN [hi |-> hash.hi,
      lo |-> (hash.lo - low) + x(1) + x(2) + x(4) + x(8) + x(16) + x(32) + x(64) + x(128)]

\* hash + (hash << 1) + (hash << 4) + (hash << 7) + (hash << 8) + (hash << 24),
\* cut to 32 bits by the next ^= and by the final >>> 0: hash * (403 + 2^24)
ShiftAdd(hash) ==
  LET low == hash.lo * 403
  IN [hi |-> (hash.hi * 403 + (low \div Word) + (hash.lo % 256) * 256) % Word,
      lo |-> low % Word]

\* for (let i = 0; i < str.length; i++) { hash ^= str.charCodeAt(i); hash += ... }
\* over the characters from..to; the range is halved and hash is read on entry
\* (it is never negative) to keep the evaluation flat
RECURSIVE FNV1aLoop(_, _, _, _)
FNV1aLoop(hash, str, from, to) ==
  IF from > to \/ hash.lo < 0 THEN hash
  ELSE IF from = to THEN ShiftAdd(XorByte(hash, str[from]))
  ELSE LET middle == (from + to) \div 2
           half == FNV1aLoop(hash, str, from, middle)
       IN FNV1aLoop(half, str, middle + 1, to)

FNV1a(hash, str) == FNV1aLoop(hash, str, 1, Len(str))

hashDataString(data) ==
  LET safeTasks == validateArrayField(data.tasks)
      safeReminders == validateArrayField(data.reminders)
      safeGoals == validateArrayField(data.goals)
      safeGoalCompletions == validateArrayField(data.goalCompletions)
      tasksStr == join(sort(MapNormalize(safeTasks)), CharCodes("|"))
      remindersStr == join(sort(MapNormalize(safeReminders)), CharCodes("|"))
      goalsStr == join(sort(MapNormalize(safeGoals)), CharCodes("|"))
      completionsStr == join(sort(MapNormalize(safeGoalCompletions)), CharCodes("|"))
      lengthStr == LengthStr(Len(safeTasks), Len(safeReminders), Len(safeGoals),
                             Len(safeGoalCompletions))
      hashed == lengthStr \o CharCodes("::") \o tasksStr \o CharCodes("::") \o remindersStr
               \o CharCodes("::") \o goalsStr \o CharCodes("::") \o completionsStr
  IN FNV1a(FNV_OFFSET, hashed)

\* The objects drawn: a with _updatedAt missing or set, a with its properties in
\* the other order, and b
WithRevisions(properties) ==
  {Obj(properties)} \cup {Obj(properties \o <<<<"_updatedAt", r>>>>) : r \in Revisions}

HashItems ==
  WithRevisions(<< <<"id", "a">>, <<"val", "x">> >>)
    \cup {Obj(<< <<"id", "b">>, <<"val", "x">>, <<"_updatedAt", 1>> >>)}
    \cup {Obj(<< <<"val", "x">>, <<"id", "a">> >>)}

InTasks(items) ==
  [tasks |-> Arr(items), reminders |-> Arr(<<>>), goals |-> Arr(<<>>),
   goalCompletions |-> Arr(<<>>)]

HashInit ==
  /\ now = 1
  /\ remote = AbsentDoc
  /\ app = [d \in Devices |-> InitApp]
  /\ localStorage = [d \in Devices |-> EmptyStorage]
  /\ saves = [d \in Devices |-> {}]
  /\ inbox = [d \in Devices |-> {}]
  /\ nCommits = 0
  /\ nOps = 0
  /\ nCoalesced = 0
  /\ deleted = {}
  /\ lastApplied = [d \in Devices |-> 0]
  /\ lastDelivery = NoDelivery
  /\ captureMode = "all"
  /\ mExisting \in SeqsUpTo(HashItems)
  /\ mIncoming \in SeqsUpTo(HashItems)
  /\ mResult = <<>>
  /\ mStage = "drawn"

ApplyHashData ==
  /\ mStage = "drawn"
  /\ mResult' = <<hashDataString(InTasks(mExisting)), hashDataString(InTasks(mIncoming))>>
  /\ mStage' = "hashData"
  /\ UNCHANGED <<mExisting, mIncoming, sysVars>>

HashNext == ApplyHashData

HashSpec == HashInit /\ [][HashNext]_vars

----------------------------------------------------------------------------
(* saveToFirebase on drawn arguments: the collections come from localStorage,  *)
(* which loadFromLocalStorage parses without looking at the items' keys.       *)

SavedTasks ==
  {[id |-> "a", val |-> "incoming"], [id |-> "a", val |-> "incoming", updatedAt |-> 1],
   [id |-> "", val |-> "incoming"], [val |-> "incoming"]}

SavedCompletions ==
  {[goalId |-> "g1", date |-> Today, completed |-> TRUE], [goalId |-> "g1", completed |-> TRUE]}

\* A document another device created before
ExistingDoc ==
  TransactionWrite(AbsentDoc,
                   sanitizeData([tasks |-> <<[id |-> "a", val |-> "existing"]>>,
                                 reminders |-> <<>>, goals |-> <<>>,
                                 goalCompletions |-> <<>>], 1),
                   "devB", 1)

\* devA has loaded these collections, detected the change at time 1 and its
\* timer has fired: saveToFirebase is at its await
Saving(cols) ==
  [InitApp EXCEPT !.tasks = cols.tasks, !.goalCompletions = cols.goalCompletions,
                  !.reminders = cols.reminders, !.goals = cols.goals,
                  !.isLoaded = TRUE, !.lastLocalChangeTimestamp = 1,
                  !.pendingSaveTimestamp = 1, !.dataHashRef = hashData(AsFields(cols))]

SaveInit ==
  /\ now = 1
  /\ remote \in {AbsentDoc, ExistingDoc}
  /\ localStorage = [d \in Devices |-> EmptyStorage]
  /\ \E tasks \in SeqsUpTo(SavedTasks), goalCompletions \in SeqsUpTo(SavedCompletions) :
       LET userData == [tasks |-> tasks, reminders |-> <<>>, goals |-> <<>>,
                        goalCompletions |-> goalCompletions]
       IN /\ app = [d \in Devices |-> IF d = "devA" THEN Saving(userData) ELSE InitApp]
          /\ saves = [d \in Devices |-> IF d = "devA" THEN {SaveCall(userData, 1)} ELSE {}]
  /\ inbox = [d \in Devices |-> {}]
  /\ nCommits = 0
  /\ nOps = 0
  /\ nCoalesced = 0
  /\ deleted = {}
  /\ lastApplied = [d \in Devices |-> 0]
  /\ lastDelivery = NoDelivery
  /\ captureMode = "all"
  /\ MergeIdle

\* saveToFirebase fails, the failure and what the call gave being kept in
\* mIncoming and mResult; an exception leaving saveToFirebase ends the timer
\* callback at its await
saveToFirebaseFails(d) ==
  \E s \in saves[d], failure \in Failures :
    LET outcome == saveToFirebase_Failed(failure)
    IN /\ mIncoming' = <<failure>>
       /\ mResult' = outcome
       /\ mStage' = "saveToFirebase"
       /\ IF outcome.threw
          THEN /\ saves' = [saves EXCEPT ![d] = @ \ {s}]
               /\ UNCHANGED <<app, now, remote, localStorage, inbox, nCommits, nOps,
                              nCoalesced, deleted, lastApplied, lastDelivery, captureMode>>
          ELSE SaveFailure(d, s)
       /\ UNCHANGED mExisting

SaveNext == TxnCommit("devA") \/ saveToFirebaseFails("devA")

SaveSpec == SaveInit /\ [][SaveNext]_vars

----------------------------------------------------------------------------
(* The listener on drawn snapshots: the document is written by every device    *)
(* and its goals come from their localStorage, with or without a description.  *)

SnapshotGoals ==
  {[id |-> "g1", val |-> "incoming", updatedAt |-> 1], [id |-> "g2", updatedAt |-> 1]}

\* The device has loaded and fingerprinted the default data, and is in one of
\* the states the save effect and the listener leave it in; the reminder may
\* have been toggled while the flag was set, which the save effect skipped
Listening(pending, flag, reminders) ==
  [InitApp EXCEPT !.isLoaded = TRUE, !.lastLocalChangeTimestamp = 1,
                  !.pendingSaveTimestamp = pending,
                  !.isSyncingFromFirebase = flag, !.flagResets = IF flag THEN 1 ELSE 0,
                  !.reminders = reminders,
                  !.dataHashRef = hashData(AsFields(DefaultData))]

ToggledReminders == << [id |-> "r1", status |-> "done", updatedAt |-> 1] >>

\* The snapshots delivered: documents with drawn goals, and the document that
\* holds the default data as a device saved it
Snapshots ==
  {[tasks |-> <<>>, reminders |-> <<>>, goals |-> goals, goalCompletions |-> <<>>,
    lastUpdated |-> lastUpdated, lastDeviceId |-> writer] :
     goals \in SeqsUpTo(SnapshotGoals), writer \in Devices, lastUpdated \in 1..MaxTime}
    \cup {ConvertedData(TransactionWrite(AbsentDoc, sanitizeData(DefaultData, 1), writer, 1)) :
            writer \in Devices}

ListenInit ==
  /\ now = 1
  /\ remote = AbsentDoc
  /\ localStorage = [d \in Devices |-> EmptyStorage]
  /\ \E pending \in {0, 1}, flag \in BOOLEAN,
        reminders \in {DefaultData.reminders, ToggledReminders} :
       app = [d \in Devices |->
                IF d = "devA" THEN Listening(pending, flag, reminders) ELSE InitApp]
  /\ saves = [d \in Devices |-> {}]
  /\ \E data \in Snapshots : inbox = [d \in Devices |-> IF d = "devA" THEN {data} ELSE {}]
  /\ nCommits = 0
  /\ nOps = 0
  /\ nCoalesced = 0
  /\ deleted = {}
  /\ lastApplied = [d \in Devices |-> 0]
  /\ lastDelivery = NoDelivery
  /\ captureMode \in CaptureModes
  /\ MergeIdle

ListenNext ==
  \/ Deliver("devA")
  \/ ResetFlag("devA")
  \/ handleToggleReminderStatus("devA")
  \/ TimerFire("devA")
  \/ TxnCommit("devA")
  \/ SaveFailed("devA")

ListenSpec == ListenInit /\ [][ListenNext]_vars

----------------------------------------------------------------------------
(* Properties *)

\* The snapshots the listener of d took in this step, and the saves of d that
\* ended in it
Delivered(d) == inbox[d] \ inbox'[d]
Ended(d) == saves[d] \ saves'[d]
Committed == nCommits' = nCommits + 1

ValidIds(items) == {items[i].id : i \in {j \in 1..Len(items) : hasValidId(items[j])}}
CompletionKeys(items) ==
  {<<items[i].goalId, items[i].date>> :
     i \in {j \in 1..Len(items) : {"goalId", "date"} \subseteq DOMAIN items[j]}}

\* C1: a commit loses no write.  After a device's transaction commits, the
\* document holds, in each of the four collections, every validly-keyed item the
\* device sent and every one the document held (what the other device's commit
\* wrote before it).
C1_NoWriteLost ==
  [][\A d \in Devices : \A s \in Ended(d) :
       Committed =>
         /\ ValidIds(s.data.tasks) \cup ValidIds(remote.tasks)
              \subseteq ValidIds(remote'.tasks)
         /\ ValidIds(s.data.reminders) \cup ValidIds(remote.reminders)
              \subseteq ValidIds(remote'.reminders)
         /\ ValidIds(s.data.goals) \cup ValidIds(remote.goals)
              \subseteq ValidIds(remote'.goals)
         /\ CompletionKeys(s.data.goalCompletions) \cup CompletionKeys(remote.goalCompletions)
              \subseteq CompletionKeys(remote'.goalCompletions)]_vars

\* C2: the document's version is the number of committed transactions: 1 after
\* the first commit, one more after every later one.
C2_VersionCountsCommits == remote.version = nCommits

C2_BothDevicesCommitted == nCommits = 2 /\ remote.exists /\ remote.lastDeviceId \in Devices

\* C3: merge decides per key.  An incoming item with a key the existing side
\* lacks is in the result; for a key on both sides the result holds the incoming
\* item when its revision is >= the existing one's (a missing one counts 0), and
\* the existing item otherwise.  For mergeLWW by id and for
\* mergeLWWGoalCompletions by (goalId, date).
C3_MergeDecidesPerKey ==
  /\ mStage = "mergeLWW" =>
       \A j \in 1..Len(mIncoming) :
         hasValidId(mIncoming[j]) =>
           LET incoming == mIncoming[j]
               same == {i \in 1..Len(mExisting) :
                          hasValidId(mExisting[i]) /\ mExisting[i].id = incoming.id}
               kept == {mResult[i] : i \in {r \in 1..Len(mResult) :
                                              mResult[r].id = incoming.id}}
           IN IF same = {} THEN kept = {incoming}
              ELSE LET existing == mExisting[CHOOSE i \in same : TRUE]
                   IN IF UpdatedAtOr0(incoming) >= UpdatedAtOr0(existing)
                      THEN kept = {incoming} ELSE kept = {existing}
  /\ mStage = "mergeLWWGoalCompletions" =>
       \A j \in 1..Len(mIncoming) :
         isValidGoalCompletion(mIncoming[j]) =>
           LET incoming == mIncoming[j]
               same == {i \in 1..Len(mExisting) :
                          /\ isValidGoalCompletion(mExisting[i])
                          /\ CompletionKey(mExisting[i]) = CompletionKey(incoming)}
               kept == {mResult[i] : i \in {r \in 1..Len(mResult) :
                                  CompletionKey(mResult[r]) = CompletionKey(incoming)}}
           IN IF same = {} THEN kept = {incoming}
              ELSE LET existing == mExisting[CHOOSE i \in same : TRUE]
                   IN IF UpdatedAtOr0(incoming) >= UpdatedAtOr0(existing)
                      THEN kept = {incoming} ELSE kept = {existing}

\* One merge by composite key in which a tie went to the incoming item and an
\* older incoming item lost to the existing one; and the same by id
C3_TieAndOlder ==
  /\ mStage = "mergeLWWGoalCompletions"
  /\ \E i, j \in 1..Len(mExisting) : \E k, l \in 1..Len(mIncoming) :
       /\ isValidGoalCompletion(mExisting[i]) /\ isValidGoalCompletion(mIncoming[k])
       /\ CompletionKey(mExisting[i]) = CompletionKey(mIncoming[k])
       /\ UpdatedAtOr0(mExisting[i]) = UpdatedAtOr0(mIncoming[k])
       /\ \E r \in 1..Len(mResult) : mResult[r] = mIncoming[k]
       /\ isValidGoalCompletion(mExisting[j]) /\ isValidGoalCompletion(mIncoming[l])
       /\ CompletionKey(mExisting[j]) = CompletionKey(mIncoming[l])
       /\ UpdatedAtOr0(mExisting[j]) > UpdatedAtOr0(mIncoming[l])
       /\ \E r \in 1..Len(mResult) : mResult[r] = mExisting[j]

\* C4: a commit on an existing document writes, as goalCompletions, the
\* last-write-wins merge by (goalId, date) of the document's completions and the
\* outgoing ones.
C4_CompletionsMergedByKey ==
  [][\A d \in Devices : \A s \in Ended(d) :
       (Committed /\ remote.exists) =>
         remote'.goalCompletions =
           mergeLWWGoalCompletions(Arr(remote.goalCompletions),
                                   Arr(s.data.goalCompletions))]_vars

C7_PendingWriteRule ==
  [][\A d \in Devices : \A data \in Delivered(d) :
       (app[d].pendingSaveTimestamp > 0
          /\ app[d].pendingSaveTimestamp > data.lastUpdated) =>
         /\ lastDelivery'.outcome = "rejectedPending"
         /\ app'[d] = app[d]]_vars

C7_RejectedPending ==
  /\ lastDelivery.outcome = "rejectedPending"
  /\ app[lastDelivery.dev].pendingSaveTimestamp > lastDelivery.lastUpdated

\* C8, as stated: with no write pending, a snapshot of another device is rejected
\* as stale exactly when its lastUpdated is less than the lastUpdated of the
\* remote data the device applied last; the device's own snapshot never is.
C8_StaleAgainstLastApplied ==
  [][\A d \in Devices : \A data \in Delivered(d) :
       /\ (app[d].pendingSaveTimestamp = 0 /\ data.lastDeviceId # d) =>
            (lastDelivery'.outcome = "rejectedStale" <=> data.lastUpdated < lastApplied[d])
       /\ data.lastDeviceId = d => lastDelivery'.outcome # "rejectedStale"]_vars

\* C8, amended: a snapshot of another device that the pending-write rule lets
\* through is rejected as stale exactly when its lastUpdated is less than
\* lastLocalChangeTimestamp, which holds the lastUpdated of the remote data
\* applied last or the time of the local change detected last, whichever was set
\* later; the device's own snapshot never is.
C8_StaleAgainstLastChange ==
  [][\A d \in Devices : \A data \in Delivered(d) :
       /\ (~(app[d].pendingSaveTimestamp > 0
               /\ app[d].pendingSaveTimestamp > data.lastUpdated)
             /\ data.lastDeviceId # d) =>
            (lastDelivery'.outcome = "rejectedStale"
               <=> data.lastUpdated < app[d].lastLocalChangeTimestamp)
       /\ data.lastDeviceId = d => lastDelivery'.outcome # "rejectedStale"]_vars

\* A snapshot of the other device was rejected as stale although it is no older
\* than the remote data the device applied last
C8_RejectedStale ==
  /\ lastDelivery.outcome = "rejectedStale"
  /\ lastDelivery.writer # lastDelivery.dev
  /\ lastDelivery.lastUpdated >= lastApplied[lastDelivery.dev]

\* C9, as stated: whenever a snapshot written by the device itself is delivered,
\* pendingSaveTimestamp becomes 0.
C9_OwnSnapshotClearsPending ==
  [][\A d \in Devices : \A data \in Delivered(d) :
       data.lastDeviceId = d => app'[d].pendingSaveTimestamp = 0]_vars

\* C9, amended: whenever a snapshot written by the device itself is delivered
\* and the pending-write rule does not reject it, pendingSaveTimestamp becomes 0.
C9_AcceptedOwnSnapshotClearsPending ==
  [][\A d \in Devices : \A data \in Delivered(d) :
       (data.lastDeviceId = d
          /\ ~(app[d].pendingSaveTimestamp > 0
                 /\ app[d].pendingSaveTimestamp > data.lastUpdated)) =>
         app'[d].pendingSaveTimestamp = 0]_vars

C9_OwnEchoApplied ==
  /\ lastDelivery.outcome = "applied"
  /\ lastDelivery.writer = lastDelivery.dev
  /\ nCommits >= 1
  /\ app[lastDelivery.dev].pendingSaveTimestamp = 0
  /\ app[lastDelivery.dev].lastLocalChangeTimestamp = lastDelivery.lastUpdated

\* C10: a deleted task is synchronised.  When a commit whose payload lacks a task
\* the device deleted succeeds, the document lacks that task from then on.
C10_DeletionSynchronised ==
  [][\A d \in Devices : \A s \in Ended(d) :
       Committed =>
         \A id \in ValidIds(remote.tasks) \ ValidIds(s.data.tasks) :
           <<d, id>> \in deleted => id \notin ValidIds(remote'.tasks)]_vars

\* The items of a collection with a valid id, by id
ItemsWithId(items, id) ==
  {items[i] : i \in {j \in 1..Len(items) : hasValidId(items[j]) /\ items[j].id = id}}

\* In this collection the commit left every document item with a positive
\* _updatedAt in place where the outgoing item of the same id had none
UnstampedLoses(outgoing, before, after) ==
  \A i \in 1..Len(outgoing) :
    (hasValidId(outgoing[i]) /\ UpdatedAtOr0(outgoing[i]) = 0) =>
      \A existing \in ItemsWithId(before, outgoing[i].id) :
        UpdatedAtOr0(existing) > 0 => ItemsWithId(after, outgoing[i].id) = {existing}

\* C11: in a commit, an outgoing item without _updatedAt (or with 0) counts as
\* timestamp 0 against the existing document: it never replaces a document item
\* of the same id that carries a positive _updatedAt.
C11_UnstampedNeverReplaces ==
  [][\A d \in Devices : \A s \in Ended(d) :
       (Committed /\ remote.exists) =>
         /\ UnstampedLoses(s.userData.tasks, remote.tasks, remote'.tasks)
         /\ UnstampedLoses(s.userData.reminders, remote.reminders, remote'.reminders)
         /\ UnstampedLoses(s.userData.goals, remote.goals, remote'.goals)]_vars

\* The number of objects of a collection whose properties, _updatedAt aside, are
\* these, in this order
Occurrences(items, properties) ==
  Cardinality({i \in 1..Len(items) : Rest(items[i]) = properties})

\* The two collections hold the same objects up to their order and up to
\* _updatedAt
SameContent(itemsA, itemsB) ==
  /\ Len(itemsA) = Len(itemsB)
  /\ \A i \in 1..Len(itemsA) :
       Occurrences(itemsA, Rest(itemsA[i])) = Occurrences(itemsB, Rest(itemsA[i]))

\* C12: two inputs whose collections hold the same items up to the order of
\* the items and up to the items' _updatedAt have the same hashData.
C12_HashOfContentOnly ==
  (mStage = "hashData" /\ SameContent(mExisting, mIncoming)) => mResult[1] = mResult[2]

\* Two different orders of two different items, with different _updatedAt
C12_ReorderedRestamped ==
  /\ mStage = "hashData"
  /\ Len(mExisting) = 2
  /\ Len(mIncoming) = 2
  /\ Rest(mExisting[1]) # Rest(mExisting[2])
  /\ Rest(mIncoming[1]) = Rest(mExisting[2])
  /\ Rest(mIncoming[2]) = Rest(mExisting[1])
  /\ mIncoming[1] # mExisting[2]
  /\ mResult[1] = mResult[2]

Range(items) == {items[i] : i \in 1..Len(items)}

\* C13: merging the result of merge(A, B) into A again gives the same result,
\* for mergeLWW and for mergeLWWGoalCompletions.
C13_MergeIdempotent == [][mStage' = "again" => mResult' = mResult]_vars

\* Merged twice, with one key where the incoming item won and one where the
\* existing item stayed
C13_MergedTwice ==
  /\ mStage = "again"
  /\ \E e1, e2 \in Range(mExisting) : \E n1, n2 \in Range(mIncoming) :
       /\ hasValidId(e1) /\ hasValidId(e2) /\ hasValidId(n1) /\ hasValidId(n2)
       /\ e1.id = n1.id /\ e2.id = n2.id /\ e1.id # e2.id
       /\ n1 \in Range(mResult) /\ e2 \in Range(mResult)
       /\ e1 \notin Range(mResult) /\ n2 \notin Range(mResult)

Max(a, b) == IF a >= b THEN a ELSE b

\* C14: for a key on both sides, the item the merge keeps for it has an
\* _updatedAt (a missing one counting 0) not below the existing item's nor the
\* incoming item's.
C14_MergeMonotonic ==
  /\ mStage = "mergeLWW" =>
       \A e \in Range(mExisting) : \A n \in Range(mIncoming) :
         (hasValidId(e) /\ hasValidId(n) /\ e.id = n.id) =>
           /\ \E r \in Range(mResult) : r.id = e.id
           /\ \A r \in Range(mResult) :
                r.id = e.id => UpdatedAtOr0(r) >= Max(UpdatedAtOr0(e), UpdatedAtOr0(n))
  /\ mStage = "mergeLWWGoalCompletions" =>
       \A e \in Range(mExisting) : \A n \in Range(mIncoming) :
         (/\ isValidGoalCompletion(e) /\ isValidGoalCompletion(n)
          /\ CompletionKey(e) = CompletionKey(n)) =>
           /\ \E r \in Range(mResult) : CompletionKey(r) = CompletionKey(e)
           /\ \A r \in Range(mResult) :
                CompletionKey(r) = CompletionKey(e) =>
                  UpdatedAtOr0(r) >= Max(UpdatedAtOr0(e), UpdatedAtOr0(n))

\* An incoming item older than the existing item of its key was merged
C14_OlderIncomingMerged ==
  /\ mStage = "mergeLWW"
  /\ \E e \in Range(mExisting) : \E n \in Range(mIncoming) :
       /\ hasValidId(e) /\ hasValidId(n) /\ e.id = n.id
       /\ UpdatedAtOr0(n) < UpdatedAtOr0(e)
       /\ \E r \in Range(mResult) : r.id = e.id /\ UpdatedAtOr0(r) = UpdatedAtOr0(e)

\* typeof goalId === 'string' && typeof date === 'string'
HasCompletionKey(obj) == obj # NullItem /\ "goalId" \in DOMAIN obj /\ "date" \in DOMAIN obj

AllKeysValid(doc) ==
  /\ \A item \in Range(doc.tasks) \cup Range(doc.reminders) \cup Range(doc.goals) :
       hasValidId(item)
  /\ \A item \in Range(doc.goalCompletions) : HasCompletionKey(item)

\* C15: after a commit every item of the document has a valid key: items without
\* one are dropped on the first-write path and on the merge path.
C15_OnlyValidKeysStored == [][Committed => AllKeysValid(remote')]_vars

\* C16: saveToFirebase does not throw: without a store and for a permission-denied,
\* unavailable, unauthenticated or any other error of the transaction it returns
\* success: false with the message of that class, and the failure leaves the
\* device's collections, its localStorage and the document as they were.
C16_FailureIsReturned ==
  [][mStage' = "saveToFirebase" =>
       LET failure == mIncoming'[1]
           message(code) == CASE code = "permission-denied" -> <<"Permissao negada">>
                              [] code = "unavailable" -> <<"Firebase indisponivel">>
                              [] code = "unauthenticated" -> <<"Autenticacao necessaria">>
                              [] OTHER -> <<"Erro", code>>
       IN /\ ~mResult'.threw
          /\ ~mResult'.value.success
          /\ ~failure.thrown => mResult'.value.error = <<"Firebase nao inicializado">>
          /\ (failure.thrown /\ failure.code # "") => mResult'.value.error = message(failure.code)
          /\ \A d \in Devices : Collections(app'[d]) = Collections(app[d])
          /\ localStorage' = localStorage
          /\ remote' = remote]_vars

\* A transaction that was refused, on a device holding items
C16_PermissionDenied ==
  /\ mStage = "saveToFirebase"
  /\ mIncoming[1].thrown /\ mIncoming[1].code = "permission-denied"
  /\ ~mResult.threw /\ ~mResult.value.success
  /\ app["devA"].tasks # <<>>
  /\ saves["devA"] = {}

\* C17: a save that fails because the store is unavailable leaves
\* pendingSaveTimestamp set; only a failure for malformed data clears it.
C17_PendingKeptWhenUnavailable ==
  [][(mStage' = "saveToFirebase" /\ mIncoming'[1].thrown /\ mIncoming'[1].code = "unavailable")
       => app'["devA"].pendingSaveTimestamp = app["devA"].pendingSaveTimestamp]_vars

\* C18: when applying a snapshot throws, the listener ends with
\* pendingSaveTimestamp = 0 and isSyncingFromFirebase false.
C18_ThrowUnblocks ==
  [][\A d \in Devices :
       (Delivered(d) # {} /\ lastDelivery'.outcome = "threw") =>
         /\ app'[d].pendingSaveTimestamp = 0
         /\ ~app'[d].isSyncingFromFirebase]_vars

\* The listener threw while the flag was set, its reset still outstanding
C18_ThrewWhileFlagged ==
  /\ lastDelivery.outcome = "threw"
  /\ lastDelivery.dev = "devA"
  /\ app["devA"].flagResets > 0
  /\ ~app["devA"].isSyncingFromFirebase
  /\ app["devA"].pendingSaveTimestamp = 0

C20_TimerOnlyReplaced ==
  [][\A d \in Devices :
       /\ ~(app[d].syncTimeout \subseteq app'[d].syncTimeout) =>
            \/ Cardinality(saves'[d] \ saves[d]) = 1
            \/ nOps' = nOps + 1 /\ app'[d].syncTimeout # {}
       /\ Delivered(d) # {} => app[d].syncTimeout \subseteq app'[d].syncTimeout]_vars

\* C21: pendingSaveTimestamp is set when the local change is detected, and it is
\* positive in every state in which a debounce timer is armed.
C21_ArmedImpliesPending ==
  \A d \in Devices : app[d].syncTimeout # {} => app[d].pendingSaveTimestamp > 0

\* The collections after merging the snapshot into the local ones
MergedInto(a, data) ==
  [tasks |-> mergeLWW(Arr(a.tasks), Arr(data.tasks)),
   reminders |-> mergeLWW(Arr(a.reminders), Arr(data.reminders)),
   goals |-> mergeLWW(Arr(a.goals), Arr(data.goals)),
   goalCompletions |->
     mergeLWWGoalCompletions(Arr(a.goalCompletions), Arr(data.goalCompletions))]

\* C22: when a snapshot is accepted every local collection becomes the merge of
\* the local collection with the snapshot's as the incoming side, the timestamp
\* applied last becomes the snapshot's lastUpdated, and dataHashRef becomes the
\* hash of the collections the component then holds.
C22_AcceptedSnapshotMerged ==
  [][\A d \in Devices : \A data \in Delivered(d) :
       lastDelivery'.outcome = "applied" =>
         /\ Collections(app'[d]) = MergedInto(app[d], data)
         /\ app'[d].lastLocalChangeTimestamp = data.lastUpdated
         /\ app'[d].dataHashRef = hashData(AsFields(app'[d]))]_vars

\* C23: the save path stays suppressed for the whole window of every accepted
\* snapshot: while the setTimeout(..., 3000) of an acceptance is outstanding,
\* isSyncingFromFirebase is set, whatever earlier windows have expired.
C23_SuppressedForWholeWindow ==
  \A d \in Devices : app[d].flagResets > 0 => app[d].isSyncingFromFirebase

ValidCompletionKeys(items) ==
  {CompletionKey(items[i]) : i \in {j \in 1..Len(items) : isValidGoalCompletion(items[j])}}

\* C24: the keys of a merge's result are the valid keys of the existing side
\* together with the valid keys of the incoming side: no key is removed because
\* the other side lacks it.
C24_MergeKeepsEveryKey ==
  /\ mStage = "mergeLWW" =>
       /\ \A r \in Range(mResult) : hasValidId(r)
       /\ ValidIds(mResult) = ValidIds(mExisting) \cup ValidIds(mIncoming)
  /\ mStage = "mergeLWWGoalCompletions" =>
       /\ \A r \in Range(mResult) : isValidGoalCompletion(r)
       /\ ValidCompletionKeys(mResult) =
            ValidCompletionKeys(mExisting) \cup ValidCompletionKeys(mIncoming)

\* A merge of two sides each holding a key the other lacks
C24_KeysOnOneSideOnly ==
  /\ mStage = "mergeLWW"
  /\ ValidIds(mExisting) \ ValidIds(mIncoming) # {}
  /\ ValidIds(mIncoming) \ ValidIds(mExisting) # {}
  /\ ValidIds(mResult) = ValidIds(mExisting) \cup ValidIds(mIncoming)

\* The objects have the same property names with the same values, _updatedAt
\* aside, whatever the order of the properties
SameProperties(objA, objB) == Range(Rest(objA)) = Range(Rest(objB))

\* C25: hashData does not depend on the order of an item's properties: two
\* collections whose items have, one by one, the same property names and values
\* have the same hash.
C25_PropertyOrderIgnored ==
  (/\ mStage = "hashData"
   /\ Len(mExisting) = Len(mIncoming)
   /\ \A i \in 1..Len(mExisting) : SameProperties(mExisting[i], mIncoming[i]))
    => mResult[1] = mResult[2]

\* C26: a local mutation made while isSyncingFromFirebase is set is not lost: the
\* re-render that follows it writes the collections to localStorage (and arms
\* the timer whose save carries them).
C26_MutationUnderFlagKept ==
  [][\A d \in Devices :
       (nOps' = nOps + 1 /\ app[d].isLoaded /\ app[d].isSyncingFromFirebase
        /\ Collections(app'[d]) # Collections(app[d])) =>
         localStorage'[d] = Stored(Collections(app'[d]))]_vars

\* C27: whenever pendingSaveTimestamp is positive a debounce timer is armed, a
\* save is in flight, or a snapshot written by the device is still to be
\* delivered to it.
C27_PendingHasCause ==
  \A d \in Devices :
    app[d].pendingSaveTimestamp > 0 =>
      \/ app[d].syncTimeout # {}
      \/ saves[d] # {}
      \/ \E data \in inbox[d] : data.lastDeviceId = d

----------------------------------------------------------------------------
(* Convergence: one device creating and editing, every save committing and   *)
(* every snapshot reaching the listener                                      *)

\* onDataChange(convertedData) returns without the listener's try having thrown
Listened(d) == Deliver(d) /\ lastDelivery'.outcome # "threw"

ConvergeNext ==
  \E d \in InUse :
       \/ loadData(d)
       \/ handleAddTask(d)
       \/ handleToggleReminderStatus(d)
       \/ Listened(d)
       \/ ResetFlag(d)
       \/ TimerFire(d)
       \/ TxnCommit(d)

\* The event loop runs every ready callback (the mount effect, an expired
\* timer) and every transaction resolves.  That the store delivers every
\* snapshot is stated by the property itself.
ConvergeFairness ==
  /\ WF_vars(loadData("devA"))
  /\ WF_vars(ResetFlag("devA"))
  /\ WF_vars(TimerFire("devA"))
  /\ WF_vars(TxnCommit("devA"))

ConvergeSpec == Init /\ [][ConvergeNext]_vars /\ ConvergeFairness

\* What the user sees of an item: everything but _updatedAt
Observable(item) == [f \in DOMAIN item \ {"updatedAt"} |-> item[f]]
ObservableItems(items) == {Observable(items[i]) : i \in 1..Len(items)}

Converged ==
  \A d \in InUse :
    /\ app[d].isLoaded
    /\ ObservableItems(app[d].tasks) = ObservableItems(remote.tasks)
    /\ ObservableItems(app[d].reminders) = ObservableItems(remote.reminders)
    /\ ObservableItems(app[d].goals) = ObservableItems(remote.goals)
    /\ ObservableItems(app[d].goalCompletions) = ObservableItems(remote.goalCompletions)

\* C28: convergence.  With creations and edits only (and these stop), every save
\* committing and every snapshot delivered, the document and the device's
\* replica end up holding the same items with the same observable content, in
\* every collection, and stay so.
EverySnapshotDelivered == \A d \in InUse : inbox[d] = {}

C28_Converges == <>[]EverySnapshotDelivered => <>[]Converged

\* Every item of the old collection has, under the same key, an item of the new
\* collection whose _updatedAt is not lower
KeptById(old, new) ==
  \A i \in {j \in 1..Len(old) : hasValidId(old[j])} :
    \E k \in {j \in 1..Len(new) : hasValidId(new[j])} :
      /\ new[k].id = old[i].id
      /\ UpdatedAtOr0(new[k]) >= UpdatedAtOr0(old[i])
KeptByCompletionKey(old, new) ==
  \A i \in {j \in 1..Len(old) : isValidGoalCompletion(old[j])} :
    \E k \in {j \in 1..Len(new) : isValidGoalCompletion(new[j])} :
      /\ CompletionKey(new[k]) = CompletionKey(old[i])
      /\ UpdatedAtOr0(new[k]) >= UpdatedAtOr0(old[i])

\* C29: across the commits of any devices, a key present in a collection of the
\* document stays in that collection, and the _updatedAt stored under it never
\* decreases.
C29_DocumentKeysStay ==
  [][Committed =>
       /\ KeptById(remote.tasks, remote'.tasks)
       /\ KeptById(remote.reminders, remote'.reminders)
       /\ KeptById(remote.goals, remote'.goals)
       /\ KeptByCompletionKey(remote.goalCompletions, remote'.goalCompletions)]_vars

\* The keys the replica holds and the document does not
LocalOnlyIds(items, documentItems) == ValidIds(items) \ ValidIds(documentItems)
LocalOnlyCompletions(items, documentItems) ==
  CompletionKeys(items) \ CompletionKeys(documentItems)

\* C30: a snapshot delivery, accepted or rejected, leaves in localStorage every
\* item the replica holds that the document does not hold yet.
C30_CacheKeepsLocalItems ==
  [][\A d \in Devices : \A data \in Delivered(d) :
       /\ LocalOnlyIds(app'[d].tasks, remote.tasks)
            \subseteq ValidIds(localStorage'[d].tasks)
       /\ LocalOnlyIds(app'[d].reminders, remote.reminders)
            \subseteq ValidIds(localStorage'[d].reminders)
       /\ LocalOnlyIds(app'[d].goals, remote.goals)
            \subseteq ValidIds(localStorage'[d].goals)
       /\ LocalOnlyCompletions(app'[d].goalCompletions, remote.goalCompletions)
            \subseteq CompletionKeys(localStorage'[d].goalCompletions)]_vars

====
